---------------------------- MODULE Spec2Model ----------------------------
(***************************************************************************)
(* A model of AnilistScores (src/src/main.rs): the list-collection query,  *)
(* the per-list batched average-score query, the positional join into     *)
(* AnilistScores records, and main's CSV / ratio report loop.              *)
(*                                                                         *)
(* Strings whose contents the code inspects or rewrites (list names, query *)
(* aliases) are sequences of one-character strings.  JSON values are       *)
(* records [t |-> tag, v |-> payload].                                     *)
(***************************************************************************)
EXTENDS Integers, Sequences, FiniteSets, TLC

VARIABLES
    pc,             \* position of the single thread of control in main
    panic,          \* message of the panic that ended the run, "" if none
    requests,       \* the transport calls issued so far, in order
    inflight,       \* number of transport calls issued and not yet returned
    query_res,      \* what run_query returned for the list-collection query
    nlists,         \* length of the lists array of the response
    idx,            \* 1-based position of the for loop over media_lists
    list,           \* the element of media_lists the loop is at
    names_seen,     \* the name field of every element the loop has reached
    avg_res,        \* what the last average-score round trip produced
    anilist_scores, \* the Vec<AnilistScores> being built / reported
    out_idx,        \* 1-based position of main's for loop over the records
    csv_log,        \* what the file system did for each reported record
    files,          \* CSV files on disk: file name -> rows
    console,        \* lines printed so far
    fin,            \* argument of the function under study (unit specs)
    fst,            \* its local variables
    fout            \* its return value

vars == <<pc, panic, requests, inflight, query_res, nlists, idx, list,
          names_seen, avg_res, anilist_scores, out_idx, csv_log, files,
          console, fin, fst, fout>>

unitVars == <<fin, fst, fout>>

-----------------------------------------------------------------------------
(* Bounds of the model.                                                    *)

\* lists in one list-collection response
MaxLists == 2
\* aliases of one batched-average response in the unit specification
MaxAliases == 11
\* elements of one entries array in the unit specification of the parser
MaxParseLen == 2

-----------------------------------------------------------------------------
(* Strings.                                                                *)

\* The characters the model uses, in increasing byte order (Rust compares
\* String values byte-wise).
CharOrder ==
    << "\"", "0", "1", "2", "3", "4", "5", "6", "7", "8", "9",
       "C", "P", "W", "\\", "_", "a", "c", "d", "e", "g", "h", "i", "l",
       "m", "n", "o", "p", "q", "r", "s", "t", "u", "y" >>

CharCode(c) == CHOOSE i \in 1..Len(CharOrder) : CharOrder[i] = c

Digits == << "0", "1", "2", "3", "4", "5", "6", "7", "8", "9" >>

\* usize / i64 Display for a non-negative number: format!("{i}")
RECURSIVE ToDec(_)
ToDec(n) ==
    IF n < 10 THEN << Digits[n + 1] >>
    ELSE ToDec(n \div 10) \o << Digits[(n % 10) + 1] >>

IsPrefix(p, s) ==
    /\ Len(p) <= Len(s)
    /\ \A i \in 1..Len(p) : s[i] = p[i]

\* str::replace(from, to): every non-overlapping match, left to right
RECURSIVE StrReplace(_, _, _)
StrReplace(s, from, to) ==
    IF s = << >> THEN << >>
    ELSE IF Len(from) > 0 /\ IsPrefix(from, s)
         THEN to \o StrReplace(SubSeq(s, Len(from) + 1, Len(s)), from, to)
         ELSE << Head(s) >> \o StrReplace(Tail(s), from, to)

\* Ord for String: lexicographic on bytes, a proper prefix is smaller
RECURSIVE StrLess(_, _)
StrLess(a, b) ==
    IF b = << >> THEN FALSE
    ELSE IF a = << >> THEN TRUE
    ELSE IF Head(a) # Head(b) THEN CharCode(Head(a)) < CharCode(Head(b))
    ELSE StrLess(Tail(a), Tail(b))

QueryPrefix == << "q", "u", "e", "r", "y", "_" >>

\* format!("query_{i}")
Alias(i) == QueryPrefix \o ToDec(i)

-----------------------------------------------------------------------------
(* JSON values.                                                            *)

JAbsent == [t |-> "absent", v |-> 0]
JNull == [t |-> "null", v |-> 0]
JInt(n) == [t |-> "int", v |-> n]
\* a number with a fractional part, v tenths (4.9 is JFloat(49))
JFloat(n) == [t |-> "float", v |-> n]
JStr(s) == [t |-> "str", v |-> s]

\* Value::as_i64
IsI64(x) == x.t = "int"


-----------------------------------------------------------------------------
(* run_query_avg_scores, lines 139-158: from the data object of the        *)
(* response to the sequence of average scores.  A data object is the       *)
(* sequence of its (key, averageScore field of the value) pairs in the     *)
(* order the map iterates them.                                            *)

\* the closure of lines 146-153
AvgPair(kv) ==
    LET k == StrReplace(kv[1], QueryPrefix, << >>)
    IN  IF kv[2].t # "absent"
        THEN << k, IF IsI64(kv[2]) THEN kv[2].v ELSE 0 >>
        ELSE << k, 0 >>

MapAvgPairs(data) == [i \in 1..Len(data) |-> AvgPair(data[i])]

\* Ord for (String, i64)
PairLess(a, b) ==
    \/ StrLess(a[1], b[1])
    \/ a[1] = b[1] /\ a[2] < b[2]

RECURSIVE InsertSorted(_, _)
InsertSorted(x, s) ==
    IF s = << >> THEN << x >>
    ELSE IF PairLess(x, Head(s)) THEN << x >> \o s
    ELSE << Head(s) >> \o InsertSorted(x, Tail(s))

\* avg_scores.sort(): a stable sort by PairLess
RECURSIVE SortPairs(_)
SortPairs(s) ==
    IF s = << >> THEN << >>
    ELSE InsertSorted(s[Len(s)], SortPairs(SubSeq(s, 1, Len(s) - 1)))

ScoresOnly(pairs) == [i \in 1..Len(pairs) |-> pairs[i][2]]

ExtractAvgScores(data) == ScoresOnly(SortPairs(MapAvgPairs(data)))

-----------------------------------------------------------------------------
(* Unit specification of lines 139-158: SpecAvg.                           *)

\* averageScore the server holds for the media behind alias i
ServerScore(i) == 50 + i

\* key orders of a k-alias object: every rotation, forwards and backwards
KeyOrders(k) ==
    { [p \in 1..k |-> IF rev THEN (r + k - p) % k ELSE (r + p - 1) % k] :
        r \in 0..(IF k = 0 THEN 0 ELSE k - 1), rev \in BOOLEAN }

\* data objects with exactly the keys query_0 .. query_{k-1}: alias i holds
\* averageScore ServerScore(i), except that one alias may hold a value without
\* an integer averageScore
AvgObjects(k) ==
    { [p \in 1..k |->
         << Alias(ord[p]),
            IF ord[p] = hole THEN odd ELSE JInt(ServerScore(ord[p])) >>] :
        ord \in KeyOrders(k), hole \in 0..k,
        odd \in {JAbsent, JNull, JFloat(725)} }

AvgInputs == UNION { AvgObjects(k) : k \in 0..MaxAliases }

PipeIdle ==
    /\ panic = ""
    /\ requests = << >>
    /\ inflight = 0
    /\ query_res = [ok |-> FALSE, shape |-> "none"]
    /\ nlists = 0
    /\ idx = 0
    /\ list = [name |-> JAbsent, entries |-> JAbsent]
    /\ names_seen = << >>
    /\ avg_res = [kind |-> "none", data |-> << >>]
    /\ anilist_scores = << >>
    /\ out_idx = 0
    /\ csv_log = << >>
    /\ files = << >>
    /\ console = << >>

pipeRest == <<panic, requests, inflight, query_res, nlists, idx, list,
              names_seen, avg_res, anilist_scores, out_idx, csv_log, files,
              console>>

InitAvg ==
    /\ PipeIdle
    /\ pc = "avg_map"
    /\ fin \in AvgInputs
    /\ fst = << >>
    /\ fout = << >>

\* lines 142-154
AvgMap ==
    /\ pc = "avg_map"
    /\ fst' = MapAvgPairs(fin)
    /\ pc' = "avg_sort"
    /\ UNCHANGED <<fin, fout, pipeRest>>

\* line 155
AvgSort ==
    /\ pc = "avg_sort"
    /\ fst' = SortPairs(fst)
    /\ pc' = "avg_collect"
    /\ UNCHANGED <<fin, fout, pipeRest>>

\* lines 157-158
AvgCollect ==
    /\ pc = "avg_collect"
    /\ fout' = ScoresOnly(fst)
    /\ pc' = "avg_ret"
    /\ UNCHANGED <<fin, fst, pipeRest>>

NextAvg == AvgMap \/ AvgSort \/ AvgCollect

SpecAvg == InitAvg /\ [][NextAvg]_vars

\* the integer averageScore of the value stored under key, 0 if it has none
ScoreUnder(data, key) ==
    LET p == CHOOSE q \in 1..Len(data) : data[q][1] = key
    IN  IF data[p][2].t = "int" THEN data[p][2].v ELSE 0

\* C1: for a response whose data object has exactly the keys
\* query_0..query_{k-1}, in any key order and for any k, the returned
\* sequence has length k and its element at position i is the averageScore
\* of alias query_i (0 when that alias has no integer averageScore).
C1_OrderedByNumericSuffix ==
    pc = "avg_ret" =>
        /\ Len(fout) = Len(fin)
        /\ \A i \in 0..(Len(fin) - 1) : fout[i + 1] = ScoreUnder(fin, Alias(i))

\* Supporting fact for C1: the same statement restricted to responses of
\* at most ten aliases, where every suffix is a single digit.
C1_UpToTenAliases ==
    (pc = "avg_ret" /\ Len(fin) <= 10) =>
        /\ Len(fout) = Len(fin)
        /\ \A i \in 0..(Len(fin) - 1) : fout[i + 1] = ScoreUnder(fin, Alias(i))

-----------------------------------------------------------------------------
(* parse_entry_values, lines 86-103.  A list value is                      *)
(* [name |-> field, entries |-> field]; an entries array is                *)
(* [t |-> "arr", v |-> sequence of [mediaId |-> field, score |-> field]].  *)
(* An element that is not an object has both fields absent.                *)

JArr(s) == [t |-> "arr", v |-> s]

\* a plausible slip: the two fields are tested and pushed independently
PushEntrySeparately(acc, entry) ==
    [entries |-> IF IsI64(entry.mediaId)
                 THEN Append(acc.entries, entry.mediaId.v) ELSE acc.entries,
     scores |-> IF IsI64(entry.score)
                THEN Append(acc.scores, entry.score.v) ELSE acc.scores]

\* the body of the for loop, lines 93-98
PushEntry(acc, entry) ==
    IF entry.mediaId.t # "absent" /\ entry.score.t # "absent"
    THEN IF IsI64(entry.mediaId) /\ IsI64(entry.score)
         THEN [entries |-> Append(acc.entries, entry.mediaId.v),
               scores |-> Append(acc.scores, entry.score.v)]
         ELSE acc
    ELSE acc

NoEntries == [entries |-> << >>, scores |-> << >>]

RECURSIVE PushAll(_, _)
PushAll(acc, arr) ==
    IF arr = << >> THEN acc
    ELSE PushAll(PushEntry(acc, Head(arr)), Tail(arr))

\* the whole function: (entries, scores)
ParseEntryValues(list_value) ==
    IF list_value.entries.t = "arr"
    THEN PushAll(NoEntries, list_value.entries.v)
    ELSE NoEntries

-----------------------------------------------------------------------------
(* Unit specification of lines 86-103: SpecParse.                          *)

ParseIdFields == {JAbsent, JNull, JInt(1), JInt(2)}
ParseScoreFields == {JAbsent, JFloat(49), JStr(<< "8", "0" >>), JInt(0), JInt(80)}
ParseElems == [mediaId : ParseIdFields, score : ParseScoreFields]

SeqsUpTo(S, n) == UNION { [1..k -> S] : k \in 0..n }

ParseInputs ==
    { [name |-> JAbsent, entries |-> e] :
        e \in {JAbsent, JNull} \cup { JArr(a) : a \in SeqsUpTo(ParseElems, MaxParseLen) } }

InitParse ==
    /\ PipeIdle
    /\ pc = "parse_enter"
    /\ fin \in ParseInputs
    /\ fst = [i |-> 0, acc |-> NoEntries]
    /\ fout = << >>

\* lines 87-91: the vectors are created; a missing or non-array entries
\* field skips the loop
ParseEnter ==
    /\ pc = "parse_enter"
    /\ fst' = [i |-> 1, acc |-> NoEntries]
    /\ pc' = IF fin.entries.t = "arr" THEN "parse_loop" ELSE "parse_exit"
    /\ UNCHANGED <<fin, fout, pipeRest>>

\* lines 92-99: one iteration
ParseIterate ==
    /\ pc = "parse_loop"
    /\ fst.i <= Len(fin.entries.v)
    /\ fst' = [i |-> fst.i + 1, acc |-> PushEntry(fst.acc, fin.entries.v[fst.i])]
    /\ UNCHANGED <<pc, fin, fout, pipeRest>>

ParseLoopEnd ==
    /\ pc = "parse_loop"
    /\ fst.i > Len(fin.entries.v)
    /\ pc' = "parse_exit"
    /\ UNCHANGED <<fin, fst, fout, pipeRest>>

\* line 102
ParseReturn ==
    /\ pc = "parse_exit"
    /\ fout' = << fst.acc.entries, fst.acc.scores >>
    /\ pc' = "parse_ret"
    /\ UNCHANGED <<fin, fst, pipeRest>>

NextParse == ParseEnter \/ ParseIterate \/ ParseLoopEnd \/ ParseReturn

SpecParse == InitParse /\ [][NextParse]_vars

WellFormed(e) == e.mediaId.t = "int" /\ e.score.t = "int"

EntriesArray(list_value) ==
    IF list_value.entries.t = "arr" THEN list_value.entries.v ELSE << >>

\* C4: parse_entry_values returns two sequences of equal length holding, in
\* source order, exactly the (mediaId, score) pairs of the elements whose
\* two fields are integers; any other element contributes to neither
\* sequence and raises no error.
C4_ParseKeepsWellFormedPairs ==
    pc = "parse_ret" =>
        LET good == SelectSeq(EntriesArray(fin), WellFormed)
        IN  /\ Len(fout[1]) = Len(fout[2])
            /\ Len(fout[1]) = Len(good)
            /\ \A i \in 1..Len(good) :
                   fout[1][i] = good[i].mediaId.v /\ fout[2][i] = good[i].score.v
            /\ panic = ""

\* C4 witness: a two-element array whose first element lacks an integer
\* score and whose second is well formed has been parsed to one pair.
C4_Witness ==
    /\ pc = "parse_ret"
    /\ fin.entries.t = "arr"
    /\ Len(fin.entries.v) = 2
    /\ fin.entries.v[1].mediaId.t = "int"
    /\ fin.entries.v[1].score.t = "float"
    /\ WellFormed(fin.entries.v[2])
    /\ fout = << << fin.entries.v[2].mediaId.v >>, << fin.entries.v[2].score.v >> >>

-----------------------------------------------------------------------------
(* The pipeline: get_anilist_scores (lines 163-211) and main (212-243).    *)

Watching == << "W", "a", "t", "c", "h", "i", "n", "g" >>
Completed == << "C", "o", "m", "p", "l", "e", "t", "e", "d" >>
Paused == << "P", "a", "u", "s", "e", "d" >>

Quote == << "\"" >>

\* serde_json's escaping of a string's characters
RECURSIVE JsonEscape(_)
JsonEscape(s) ==
    IF s = << >> THEN << >>
    ELSE (IF Head(s) \in {"\"", "\\"} THEN << "\\", Head(s) >> ELSE << Head(s) >>)
         \o JsonEscape(Tail(s))

\* Value::to_string of a JSON string: the quoted, escaped text
JsonToString(x) == Quote \o JsonEscape(x.v) \o Quote

\* line 199: list_name.to_string().replace('"', "")
ListTypeOf(name) == StrReplace(JsonToString(name), Quote, << >>)

\* a plausible slip: the catch-all arm parses the list too
ListMatchAny(list_type) == TRUE

\* lines 188-192: the match on list_type
ListMatch(list_type) == list_type \in {Watching, Completed}

\* a plausible slip: a missing lists array is read as no lists
LookupListsLenient(shape) ==
    IF shape = "lists" THEN "array"
    ELSE IF shape = "lists_not_array" THEN "not_array"
    ELSE "array"

\* lines 176-182: what data.MediaListCollection.lists is in a response of
\* the given shape
LookupLists(shape) ==
    IF shape = "lists" THEN "array"
    ELSE IF shape = "lists_not_array" THEN "not_array"
    ELSE "none"

\* lines 115-123: the aliased sub-queries, (alias, media id) in order
MediaFields(media_ids) ==
    [i \in 1..Len(media_ids) |-> << Alias(i - 1), media_ids[i] >>]

ListRequest == [kind |-> "list", fields |-> << >>]
AvgRequest(media_ids) == [kind |-> "avg", fields |-> MediaFields(media_ids)]

\* lines 198-203
MakeRecord(name, parsed, avg_scores) ==
    [list_type |-> ListTypeOf(name),
     anilist_id |-> parsed.entries,
     user_score |-> parsed.scores,
     global_avg_score |-> avg_scores]

\* lines 30-43: df! builds a frame only from columns of one length; the
\* list_type column has user_score.len() rows
FrameOk(score) ==
    /\ Len(score.anilist_id) = Len(score.user_score)
    /\ Len(score.global_avg_score) = Len(score.user_score)

CsvHeader == << "list_type", "anilist_id", "user_score", "global_avg_score" >>

CsvRows(score) ==
    << CsvHeader >> \o
    [i \in 1..Len(score.user_score) |->
        << score.list_type, score.anilist_id[i], score.user_score[i],
           score.global_avg_score[i] >>]

\* line 230, for the fixed arguments of the run
CsvName(list_type) == [media |-> "ANIME", list_type |-> list_type, username |-> "user"]

RECURSIVE Sum(_)
Sum(s) == IF s = << >> THEN 0 ELSE Head(s) + Sum(Tail(s))

RECURSIVE Gcd(_, _)
Gcd(a, b) == IF b = 0 THEN a ELSE Gcd(b, a % b)

Abs(a) == IF a < 0 THEN -a ELSE a

\* line 240: a as f64 / b as f64 (IEEE 754), a finite quotient kept as a
\* reduced fraction
F64Div(a, b) ==
    IF b = 0
    THEN [kind |-> IF a = 0 THEN "NaN" ELSE IF a > 0 THEN "inf" ELSE "-inf",
          num |-> 0, den |-> 0]
    ELSE LET g == Gcd(Abs(a), Abs(b))
         IN  [kind |-> "finite",
              num |-> (IF b < 0 THEN -a ELSE a) \div g,
              den |-> Abs(b) \div g]

\* lines 234-241
RatioOf(score) == F64Div(Sum(score.user_score), Sum(score.global_avg_score))

Line(kind, list_type, ratio) == [kind |-> kind, list_type |-> list_type, ratio |-> ratio]
NoRatio == [kind |-> "none", num |-> 0, den |-> 0]
RatioLine(score) == Line("ratio", score.list_type, RatioOf(score))

WriteFile(fs, name, rows) ==
    [n \in (DOMAIN fs) \cup {name} |-> IF n = name THEN rows ELSE fs[n]]

-----------------------------------------------------------------------------
(* What the remote service and the file system may do.                     *)

\* shapes of a parsed list-collection response
ListShapes == {"no_data", "no_collection", "no_lists", "lists_not_array", "lists"}

\* entries arrays of the pipeline: element j has mediaId 100 + j and an
\* integer score or a decimal one (4.9)
PipeElem(j, ok) ==
    [mediaId |-> JInt(100 + j), score |-> IF ok THEN JInt(50) ELSE JFloat(49)]

PipeArrays ==
    { JArr(<< >>),
      JArr(<< PipeElem(1, TRUE) >>),
      JArr(<< PipeElem(1, FALSE), PipeElem(2, TRUE) >>),
      JArr(<< PipeElem(1, TRUE), PipeElem(2, TRUE) >>) }

\* elements of the lists array
ListValues ==
    { [name |-> JStr(n), entries |-> e] :
        n \in {Watching, Completed}, e \in PipeArrays \cup {JAbsent} }
    \cup { [name |-> JStr(Paused), entries |-> JArr(<< PipeElem(1, TRUE) >>)],
           [name |-> JAbsent, entries |-> JArr(<< PipeElem(1, TRUE) >>)],
           [name |-> JInt(3), entries |-> JAbsent] }

\* a data object of m aliases, keys in descending order; alias i holds
\* averageScore 70 + i, or null for every alias
PipeData(m, scored) ==
    [p \in 1..m |-> << Alias(m - p), IF scored THEN JInt(70 + (m - p)) ELSE JNull >>]

\* data objects the service may answer a request of n aliases with: one
\* value per alias, or one alias too few (one too many for n = 0)
PipeDataFor(n) ==
    { PipeData(n, sc) : sc \in BOOLEAN }
    \cup { PipeData(IF n = 0 THEN 1 ELSE n - 1, TRUE) }

AvgRes(kind, data) == [kind |-> kind, data |-> data]

-----------------------------------------------------------------------------
(* Actions.                                                                *)

UnwrapNone == "called Option::unwrap() on a None value"

Panic(msg) ==
    /\ pc' = "panicked"
    /\ panic' = msg

\* lines 164-175 and 64-69: the list-collection query is posted
SendListQuery ==
    /\ pc = "start"
    /\ requests' = Append(requests, ListRequest)
    /\ inflight' = inflight + 1
    /\ pc' = "list_wait"
    /\ UNCHANGED <<panic, query_res, nlists, idx, list, names_seen, avg_res,
                   anilist_scores, out_idx, csv_log, files, console, unitVars>>

\* lines 69-71: send() fails and expect panics
RecvListSendFail ==
    /\ pc = "list_wait"
    /\ inflight' = inflight - 1
    /\ Panic("Query failed.")
    /\ UNCHANGED <<requests, query_res, nlists, idx, list, names_seen, avg_res,
                   anilist_scores, out_idx, csv_log, files, console, unitVars>>

\* lines 75-83 and 175, 209-210: the body cannot be read or is not JSON;
\* run_query returns Err and get_anilist_scores returns the empty vector
RecvListErr ==
    /\ pc = "list_wait"
    /\ \E k \in {"text_fail", "bad_json"} :
          query_res' = [ok |-> FALSE, shape |-> k]
    /\ inflight' = inflight - 1
    /\ pc' = "banner"
    /\ UNCHANGED <<panic, requests, nlists, idx, list, names_seen, avg_res,
                   anilist_scores, out_idx, csv_log, files, console, unitVars>>

\* lines 75-77 and 175: run_query returns the parsed response
RecvListOk ==
    /\ pc = "list_wait"
    /\ \E sh \in ListShapes : query_res' = [ok |-> TRUE, shape |-> sh]
    /\ inflight' = inflight - 1
    /\ pc' = "lists"
    /\ UNCHANGED <<panic, requests, nlists, idx, list, names_seen, avg_res,
                   anilist_scores, out_idx, csv_log, files, console, unitVars>>

\* lines 176-182: the lists array is looked up
GetLists ==
    /\ pc = "lists"
    /\ LET found == LookupLists(query_res.shape)
       IN  \/ /\ found = "none"
              /\ Panic("Media lists not found.")
              /\ UNCHANGED <<nlists, idx>>
           \/ /\ found = "not_array"
              /\ Panic(UnwrapNone)
              /\ UNCHANGED <<nlists, idx>>
           \/ /\ found = "array"
              /\ nlists' \in 0..MaxLists
              /\ idx' = 1
              /\ pc' = "loop"
              /\ UNCHANGED panic
    /\ UNCHANGED <<requests, inflight, query_res, list, names_seen, avg_res,
                   anilist_scores, out_idx, csv_log, files, console, unitVars>>

\* the for loop of line 182 yields its next element
Yields(l) ==
    /\ pc = "loop"
    /\ idx <= nlists
    /\ l \in ListValues
    /\ list' = l
    /\ names_seen' = Append(names_seen, l.name)

\* lines 183 and 188-194: no name, or a name that is not matched
SkipList ==
    /\ \E l \in ListValues :
          /\ Yields(l)
          /\ \/ l.name.t = "absent"
             \/ l.name.t = "str" /\ ~ListMatch(l.name.v)
    /\ idx' = idx + 1
    /\ UNCHANGED <<pc, panic, requests, inflight, query_res, nlists, avg_res,
                   anilist_scores, out_idx, csv_log, files, console, unitVars>>

\* lines 184-186: a name that is not a string
PanicListName ==
    /\ \E l \in ListValues :
          /\ Yields(l)
          /\ l.name.t \notin {"absent", "str"}
    /\ Panic("Cannot coerce list name to string.")
    /\ UNCHANGED <<requests, inflight, query_res, nlists, idx, avg_res,
                   anilist_scores, out_idx, csv_log, files, console, unitVars>>

\* a plausible slip: the batched query is posted and not waited for, the
\* loop moves on to the next list
SendAvgQueryUnawaited ==
    /\ \E l \in ListValues :
          /\ Yields(l)
          /\ l.name.t = "str" /\ ListMatch(l.name.v)
          /\ requests' = Append(requests, AvgRequest(ParseEntryValues(l).entries))
    /\ inflight' = inflight + 1
    /\ idx' = idx + 1
    /\ UNCHANGED <<pc, panic, query_res, nlists, avg_res, anilist_scores,
                   out_idx, csv_log, files, console, unitVars>>

\* lines 188-197, 115-138 and 64-69: a matched list is parsed and its
\* batched average query is posted
SendAvgQuery ==
    /\ \E l \in ListValues :
          /\ Yields(l)
          /\ l.name.t = "str" /\ ListMatch(l.name.v)
          /\ requests' = Append(requests, AvgRequest(ParseEntryValues(l).entries))
    /\ inflight' = inflight + 1
    /\ pc' = "avg_wait"
    /\ UNCHANGED <<panic, query_res, nlists, idx, avg_res, anilist_scores,
                   out_idx, csv_log, files, console, unitVars>>

\* lines 69-71
RecvAvgSendFail ==
    /\ pc = "avg_wait"
    /\ avg_res' = AvgRes("send_fail", << >>)
    /\ inflight' = inflight - 1
    /\ Panic("Query failed.")
    /\ UNCHANGED <<requests, query_res, nlists, idx, list, names_seen,
                   anilist_scores, out_idx, csv_log, files, console, unitVars>>

\* lines 75-83, 139, 159-160 and 197: run_query returns Err, so does
\* run_query_avg_scores, and the list is passed over
RecvAvgErr ==
    /\ pc = "avg_wait"
    /\ \E k \in {"text_fail", "bad_json"} : avg_res' = AvgRes(k, << >>)
    /\ inflight' = inflight - 1
    /\ idx' = idx + 1
    /\ pc' = "loop"
    /\ UNCHANGED <<panic, requests, query_res, nlists, list, names_seen,
                   anilist_scores, out_idx, csv_log, files, console, unitVars>>

\* lines 140-144: the response has no data key, or data is not an object
RecvAvgNoData ==
    /\ pc = "avg_wait"
    /\ \E k \in {"no_data", "data_null"} : avg_res' = AvgRes(k, << >>)
    /\ inflight' = inflight - 1
    /\ Panic(UnwrapNone)
    /\ UNCHANGED <<requests, query_res, nlists, idx, list, names_seen,
                   anilist_scores, out_idx, csv_log, files, console, unitVars>>

\* lines 140-158 and 197-205: the averages are extracted and the record
\* is pushed
RecvAvgData ==
    /\ pc = "avg_wait"
    /\ \E d \in PipeDataFor(Len(requests[Len(requests)].fields)) :
          /\ avg_res' = AvgRes("data", d)
          /\ anilist_scores' =
                Append(anilist_scores,
                       MakeRecord(list.name, ParseEntryValues(list), ExtractAvgScores(d)))
    /\ inflight' = inflight - 1
    /\ idx' = idx + 1
    /\ pc' = "loop"
    /\ UNCHANGED <<panic, requests, query_res, nlists, list, names_seen,
                   out_idx, csv_log, files, console, unitVars>>

\* lines 208-210: the loop is over
EndLists ==
    /\ pc = "loop"
    /\ idx > nlists
    /\ pc' = "banner"
    /\ UNCHANGED <<panic, requests, inflight, query_res, nlists, idx, list,
                   names_seen, avg_res, anilist_scores, out_idx, csv_log, files,
                   console, unitVars>>

\* lines 220-228
PrintBanner ==
    /\ pc = "banner"
    /\ console' = Append(console, Line("banner", << >>, NoRatio))
    /\ out_idx' = 1
    /\ pc' = "report"
    /\ UNCHANGED <<panic, requests, inflight, query_res, nlists, idx, list,
                   names_seen, avg_res, anilist_scores, csv_log, files,
                   unitVars>>

\* what the file system does when to_csv creates and writes the file
IoResults == {"ok", "create_fail", "write_fail"}

\* a plausible slip: a file that cannot be created panics as well
ToCsvStrict(score, io) ==
    IF ~FrameOk(score) THEN "no_frame"
    ELSE IF io = "ok" THEN "written"
    ELSE "panic"

\* lines 45-58: how to_csv ends for a record under a file-system result
ToCsv(score, io) ==
    IF ~FrameOk(score) THEN "no_frame"
    ELSE IF io = "create_fail" THEN "no_create"
    ELSE IF io = "write_fail" THEN "panic"
    ELSE "written"

\* lines 228-242: one iteration of main's loop in which to_csv returns
ReportList ==
    /\ pc = "report"
    /\ out_idx <= Len(anilist_scores)
    /\ LET score == anilist_scores[out_idx]
       IN  \E io \in IoResults :
             LET how == ToCsv(score, io)
             IN  /\ how # "panic"
                 /\ csv_log' = Append(csv_log, how)
                 /\ files' = IF how = "written"
                             THEN WriteFile(files, CsvName(score.list_type), CsvRows(score))
                             ELSE files
                 /\ console' =
                       (IF how = "written" THEN console
                        ELSE Append(console, Line(how, score.list_type, NoRatio)))
                       \o << RatioLine(score) >>
    /\ out_idx' = out_idx + 1
    /\ UNCHANGED <<pc, panic, requests, inflight, query_res, nlists, idx, list,
                   names_seen, avg_res, anilist_scores, unitVars>>

\* lines 47-51: the file is created and the writer fails
ReportWriteFail ==
    /\ pc = "report"
    /\ out_idx <= Len(anilist_scores)
    /\ LET score == anilist_scores[out_idx]
       IN  \E io \in IoResults :
             /\ ToCsv(score, io) = "panic"
             /\ csv_log' = Append(csv_log, io)
             /\ files' = IF io = "write_fail"
                         THEN WriteFile(files, CsvName(score.list_type), << >>)
                         ELSE files
    /\ Panic("Unable to save file")
    /\ UNCHANGED <<requests, inflight, query_res, nlists, idx, list, names_seen,
                   avg_res, anilist_scores, out_idx, console, unitVars>>

\* line 242: main returns
Finish ==
    /\ pc = "report"
    /\ out_idx > Len(anilist_scores)
    /\ pc' = "done"
    /\ UNCHANGED <<panic, requests, inflight, query_res, nlists, idx, list,
                   names_seen, avg_res, anilist_scores, out_idx, csv_log, files,
                   console, unitVars>>

Init ==
    /\ PipeIdle
    /\ pc = "start"
    /\ fin = << >>
    /\ fst = << >>
    /\ fout = << >>

Next ==
    \/ SendListQuery
    \/ RecvListSendFail
    \/ RecvListErr
    \/ RecvListOk
    \/ GetLists
    \/ SkipList
    \/ PanicListName
    \/ SendAvgQuery
    \/ RecvAvgSendFail
    \/ RecvAvgErr
    \/ RecvAvgNoData
    \/ RecvAvgData
    \/ EndLists
    \/ PrintBanner
    \/ ReportList
    \/ ReportWriteFail
    \/ Finish

Spec == Init /\ [][Next]_vars

-----------------------------------------------------------------------------
(* Vocabulary of the claims about the pipeline.                            *)

IsProcessedName(nm) == nm.t = "str" /\ nm.v \in {Watching, Completed}

IsAvgRequest(r) == r.kind = "avg"
IsRatioLine(l) == l.kind = "ratio"

\* names of the matched lists the loop has reached, the average-score
\* requests issued, the ratio lines printed
MatchedSeen == SelectSeq(names_seen, IsProcessedName)
AvgRequests == SelectSeq(requests, IsAvgRequest)
RatioLines == SelectSeq(console, IsRatioLine)

SameLengths(r) ==
    /\ Len(r.anilist_id) = Len(r.user_score)
    /\ Len(r.user_score) = Len(r.global_avg_score)

AvgFailureKinds == {"send_fail", "text_fail", "bad_json", "no_data", "data_null"}

\* C2: joining a list's entries with its average scores fails loudly when
\* the two sequences differ in length, so every AnilistScores record that
\* get_anilist_scores returns has len(anilist_id) = len(user_score) =
\* len(global_avg_score).
C2_RecordsHaveEqualLengths ==
    \A i \in 1..Len(anilist_scores) : SameLengths(anilist_scores[i])

\* C3: when the average-score round trip of a list fails (connection
\* failure, unreadable or unparseable body, response without a usable data
\* object) the list is left out and the run goes on; the failure never
\* aborts the run.
C3_AvgFailureNeverAborts ==
    (pc # "avg_wait" /\ avg_res.kind \in AvgFailureKinds) =>
        panic \notin {"Query failed.", UnwrapNone}

\* C5: a list whose name is not exactly Watching or Completed never yields
\* a record, a CSV file, a console line or an average-score request; every
\* record has list_type Watching or Completed.
C5_OnlyWatchingAndCompleted ==
    /\ \A i \in 1..Len(anilist_scores) :
          anilist_scores[i].list_type \in {Watching, Completed}
    /\ Len(AvgRequests) = Len(MatchedSeen)
    /\ Len(anilist_scores) <= Len(MatchedSeen)
    /\ \A f \in DOMAIN files : f.list_type \in {Watching, Completed}
    /\ \A i \in 1..Len(console) :
          console[i].kind # "banner" => console[i].list_type \in {Watching, Completed}

\* C5 witness: a run that met a Paused list has ended with a record, a
\* file and a ratio line.
C5_Witness ==
    /\ pc = "done"
    /\ \E i \in 1..Len(names_seen) : names_seen[i] = JStr(Paused)
    /\ Len(anilist_scores) >= 1
    /\ DOMAIN files # {}
    /\ Len(RatioLines) >= 1

\* C6: when the sum of a list's global average scores is 0 the ratio is
\* reported as NaN whatever the sum of the personal scores is, never as 0
\* or as an infinity.  (Stated for the records whose sequences have one
\* length, so that a mismatched join plays no part.)
C6_ZeroDenominatorIsNaN ==
    \A k \in 1..Len(RatioLines) :
        (SameLengths(anilist_scores[k]) /\ Sum(anilist_scores[k].global_avg_score) = 0)
            => RatioLines[k].ratio.kind = "NaN"

EmptyBatchAnswered ==
    /\ pc # "avg_wait"
    /\ Len(requests) > 1
    /\ requests[Len(requests)].fields = << >>
    /\ \/ avg_res.kind \in {"no_data", "data_null"}
       \/ avg_res.kind = "data" /\ avg_res.data = << >>

\* C7: for a matched list with no usable entry the batched step issues no
\* request or tolerates the empty or absent response data; either way the
\* average sequence is empty and the run is not aborted.
C7_EmptyBatchTolerated ==
    EmptyBatchAnswered =>
        /\ panic # UnwrapNone
        /\ pc # "panicked" =>
              /\ Len(anilist_scores) >= 1
              /\ anilist_scores[Len(anilist_scores)].global_avg_score = << >>

MissingListsShapes == {"no_data", "no_collection", "no_lists"}

IdsOfWellFormed(l) ==
    LET good == SelectSeq(EntriesArray(l), WellFormed)
    IN  [i \in 1..Len(good) |-> good[i].mediaId.v]

RequestedIds(r) == [i \in 1..Len(r.fields) |-> r.fields[i][2]]

StructuralFailureStops ==
    (query_res.ok /\ query_res.shape \in MissingListsShapes /\ pc # "lists") =>
        /\ pc = "panicked"
        /\ panic = "Media lists not found."
        /\ requests = << ListRequest >>
        /\ anilist_scores = << >>
        /\ console = << >>
        /\ DOMAIN files = {}

MalformedEntryOnlyDropped ==
    (names_seen' # names_seen /\ IsProcessedName(list'.name)) =>
        /\ pc' = "avg_wait"
        /\ panic' = ""
        /\ RequestedIds(requests'[Len(requests')]) = IdsOfWellFormed(list')

\* C8: a list-collection response without data.MediaListCollection.lists
\* stops the run before any average-score request or report is made; a
\* malformed entry inside a list is only dropped (the batched query is
\* built from the well-formed entries) and never stops the run.
C8_StructuralFatalEntryLenient ==
    /\ []StructuralFailureStops
    /\ [][MalformedEntryOnlyDropped]_vars

\* C8 witness: a run whose last matched list held a malformed entry next to
\* a well-formed one has ended normally with the well-formed one reported.
C8_Witness ==
    /\ pc = "done"
    /\ IsProcessedName(list.name)
    /\ Len(EntriesArray(list)) = 2
    /\ ~WellFormed(EntriesArray(list)[1])
    /\ Len(anilist_scores) >= 1
    /\ anilist_scores[Len(anilist_scores)].anilist_id = << EntriesArray(list)[2].mediaId.v >>
    /\ Len(RatioLines) = Len(anilist_scores)

\* console position of the ratio line of the k-th reported record
RECURSIVE RatioPos(_)
RatioPos(k) ==
    IF k = 0 THEN 1
    ELSE RatioPos(k - 1) + (IF csv_log[k] = "written" THEN 1 ELSE 2)

\* C9 as stated: when the CSV file of a list cannot be created or cannot be
\* written, the failure is reported on the console, that file alone is
\* skipped and the run goes on to the remaining lists.
C9_CsvFailureNeverAborts ==
    \A k \in 1..Len(csv_log) :
        csv_log[k] \in {"no_create", "create_fail", "write_fail"} =>
            /\ panic = ""
            /\ out_idx > k
            /\ console[RatioPos(k) - 1].kind = "no_create"

\* C9 as amended: a file that cannot be created is reported on the console,
\* that file alone is skipped, the ratio line of the list is printed and
\* the loop goes on; a file that was created and cannot be written ends the
\* run with the panic "Unable to save file", and nothing else ends it with
\* that panic.  When main returns every record has its ratio line and every
\* record whose file was written has its file.
C9_CreateFailureSkipsWriteFailureAborts ==
    /\ \A k \in 1..Len(csv_log) :
          /\ csv_log[k] \in {"no_frame", "no_create", "written", "write_fail"}
          /\ csv_log[k] = "write_fail" =>
                /\ k = Len(csv_log)
                /\ panic = "Unable to save file"
                /\ out_idx = k
                /\ Len(RatioLines) = k - 1
          /\ csv_log[k] # "write_fail" =>
                /\ out_idx > k
                /\ console[RatioPos(k)] = RatioLine(anilist_scores[k])
          /\ csv_log[k] = "no_create" =>
                /\ console[RatioPos(k) - 1] =
                      Line("no_create", anilist_scores[k].list_type, NoRatio)
                /\ FrameOk(anilist_scores[k])
          /\ csv_log[k] = "written" =>
                CsvName(anilist_scores[k].list_type) \in DOMAIN files
    /\ panic = "Unable to save file" =>
          (Len(csv_log) > 0 /\ csv_log[Len(csv_log)] = "write_fail")
    /\ pc = "done" =>
          /\ Len(csv_log) = Len(anilist_scores)
          /\ Len(RatioLines) = Len(anilist_scores)

\* C9 witness: main has returned after a first list whose file could not
\* be created and a second, differently named list whose file was written.
C9_Witness ==
    /\ pc = "done"
    /\ Len(csv_log) = 2
    /\ csv_log[1] = "no_create"
    /\ csv_log[2] = "written"
    /\ anilist_scores[1].list_type # anilist_scores[2].list_type
    /\ DOMAIN files = { CsvName(anilist_scores[2].list_type) }
    /\ files[CsvName(anilist_scores[2].list_type)] = CsvRows(anilist_scores[2])

\* C10: the transport calls form a sequential chain: the list-collection
\* request is issued once, first, and has returned a response before any
\* average-score request is built; one average-score request is issued per
\* Watching/Completed list the loop reaches, in the order of the lists,
\* each returning before the next is issued; two requests are never in
\* flight, and a run that ends normally has reached every list.
C10_SequentialRequestChain ==
    /\ inflight \in {0, 1}
    /\ inflight = 1 <=> pc \in {"list_wait", "avg_wait"}
    /\ \A i \in 1..Len(requests) : requests[i].kind = "list" <=> i = 1
    /\ pc # "start" => Len(requests) >= 1
    /\ Len(requests) > 1 => (query_res.ok /\ query_res.shape = "lists")
    /\ Len(AvgRequests) = Len(MatchedSeen)
    /\ pc = "avg_wait" =>
          RequestedIds(requests[Len(requests)]) = IdsOfWellFormed(list)
    /\ Len(names_seen) <= nlists
    /\ (pc = "done" /\ query_res.ok) => Len(names_seen) = nlists

\* C10 witness: a run over two matched lists has ended after three
\* requests, none in flight.
C10_Witness ==
    /\ pc = "done"
    /\ Len(requests) = 3
    /\ Len(MatchedSeen) = 2
    /\ inflight = 0

=============================================================================
